---------------------------- MODULE Spec2Model ----------------------------
(***************************************************************************)
(* Balls-chin generator: the page script in its two variants.              *)
(*   "asset"      src/script.js          mask/outline images, filtered     *)
(*                                       colour sampler, width and offset  *)
(*                                       sliders, rotation                 *)
(*   "procedural" src/unnamed/part_000   two ellipses, unfiltered sampler  *)
(*                                                                         *)
(* Real numbers (slider values, rectangles) are exact rationals with the   *)
(* fixed denominator Unit, so Math.floor and Math.round are computed and   *)
(* not assumed.  Slider values and normalised landmark coordinates are     *)
(* tenths.                                                                 *)
(***************************************************************************)
EXTENDS Integers, Sequences, FiniteSets, TLC

VARIABLES
    variant,          \* which of the two scripts the page runs
    detectorLoaded,   \* the global FaceMesh constructor exists
    genDisabled,      \* generateBtn.disabled
    dlDisabled,       \* downloadBtn.disabled
    maskImg,          \* state of the mask image
    outlineImg,       \* state of the outline image
    pendingReads,     \* FileReader reads in flight
    uploadedImage,    \* the global: NoImage or [file, state]; file is "undecoded" while loading
    orphans,          \* replaced Image objects whose load event is still to come
    canvas,           \* [w, h, base, painted]
    runs,             \* generate handlers suspended at the await: captured intensity -> how many
    sampled,          \* the computeAverageColor call of the latest step, if any
    last,             \* the generate handler that ended in the latest step, if any
    exported          \* the download made in the latest step, if any

vars == <<variant, detectorLoaded, genDisabled, dlDisabled, maskImg, outlineImg,
          pendingReads, uploadedImage, orphans, canvas, runs, sampled, last, exported>>

(***************************************************************************)
(* Bounds of the model.                                                    *)
(***************************************************************************)
MaxRuns == 2          \* generate handlers suspended at once
MaxPending == 2       \* file reads and image decodes in flight at once
MaxCoord == 9         \* sampler inputs range over -2*Step .. MaxCoord*Step

(***************************************************************************)
(* Arithmetic.                                                             *)
(***************************************************************************)
Unit == 200 * 1000                 \* fixed-point denominator: one pixel
Px(n) == n * Unit
Floor(v) == v \div Unit            \* Math.floor
Min2(a, b) == IF a <= b THEN a ELSE b
Max2(a, b) == IF a >= b THEN a ELSE b
SetMin(S) == CHOOSE m \in S : \A o \in S : m <= o      \* Math.min(...xs)
SetMax(S) == CHOOSE m \in S : \A o \in S : m >= o      \* Math.max(...xs)

Variants == {"asset", "procedural"}

(***************************************************************************)
(* The files a user can pick.  "gray" and "quad" decode; "text" does not.  *)
(*   gray  40 x 30, every pixel (128,128,128)                              *)
(*   quad  20 x 16, four uniform quadrants                                 *)
(***************************************************************************)
GoodFiles == {"gray", "quad"}
BadFiles == {"text"}
Files == GoodFiles \cup BadFiles

ImgWidth(f) == IF f = "gray" THEN 40 ELSE 20
ImgHeight(f) == IF f = "gray" THEN 30 ELSE 16

Rgb(r, g, b) == [r |-> r, g |-> g, b |-> b]
Transparent == Rgb(0, 0, 0)        \* r, g, b of a cleared pixel

ImgPixel(f, px, py) ==
    IF f = "gray" THEN Rgb(128, 128, 128)
    ELSE IF px < 10
         THEN (IF py < 8 THEN Rgb(128, 128, 128) ELSE Rgb(20, 20, 20))
         ELSE (IF py < 8 THEN Rgb(250, 250, 250) ELSE Rgb(250, 100, 30))

(***************************************************************************)
(* The canvas: its size, the image drawn on it, and how many overlays have *)
(* been drawn on top since.  Rasterising an overlay's shape is outside the *)
(* model, so the pixels of a painted canvas are not known: what the        *)
(* sampler makes of them is an input (Sample).                             *)
(***************************************************************************)
BlankCanvas(w, h) == [w |-> w, h |-> h, base |-> "blank", painted |-> 0]
ImageCanvas(w, h, f) == [w |-> w, h |-> h, base |-> f, painted |-> 0]

\* a pixel of a canvas nothing has been painted on
CanvasPixel(cv, px, py) ==
    IF cv.base \in GoodFiles /\ px < ImgWidth(cv.base) /\ py < ImgHeight(cv.base)
    THEN ImgPixel(cv.base, px, py)
    ELSE Transparent

(***************************************************************************)
(* computeAverageColor                                                     *)
(***************************************************************************)
ByteStride == 40
PixelStride == ByteStride \div 4   \* 4 bytes per pixel of ImageData
MinBrightness == 40
MaxBrightness == 230
OffsetFiltered == 15
OffsetPlain == 10

DefaultColor(var) == IF var = "asset" THEN Rgb(220, 160, 140) ELSE Rgb(200, 160, 140)

\* the height the sampler takes from h: the top 40% in script.js, all of it in part_000
SampleHeight(var, h) == IF var = "asset" THEN (h * 4) \div (10 * Unit) ELSE Floor(h)

ClampWidthUnclamped(size, s, want) == want

ClampWidth(size, s, want) == Min2(size - s, want)

SampleRegion(var, cv, x, y, w, h) ==
    LET sx == Max2(0, Floor(x))
        sy == Max2(0, Floor(y))
    IN  [sx |-> sx, sy |-> sy,
         sw |-> ClampWidth(cv.w, sx, Floor(w)),
         sh |-> ClampWidth(cv.h, sy, SampleHeight(var, h))]

\* the pixels the loop visits: data[i], i = 0, 40, 80, ... < data.length
SampleCount(g) == (g.sw * g.sh + PixelStride - 1) \div PixelStride

SamplePixel(cv, g, k) ==
    LET p == k * PixelStride
    IN  CanvasPixel(cv, g.sx + (p % g.sw), g.sy + (p \div g.sw))

Passes(var, c) ==
    \/ var = "procedural"
    \/ /\ c.r + c.g + c.b > 3 * MinBrightness
       /\ c.r + c.g + c.b < 3 * MaxBrightness

RECURSIVE SumFrom(_, _, _, _, _)
SumFrom(var, cv, g, k, acc) ==
    IF k = SampleCount(g) THEN acc
    ELSE LET c == SamplePixel(cv, g, k)
         IN  IF Passes(var, c)
             THEN SumFrom(var, cv, g, k + 1,
                          [r |-> acc.r + c.r, g |-> acc.g + c.g,
                           b |-> acc.b + c.b, count |-> acc.count + 1])
             ELSE SumFrom(var, cv, g, k + 1, acc)

BrightenUnclamped(sum, count, off) == (2 * sum + (2 * off + 1) * count) \div (2 * count)

\* Math.min(255, Math.round(sum / count + off))
Brighten(sum, count, off) ==
    Min2(255, (2 * sum + (2 * off + 1) * count) \div (2 * count))

BrightenOffset(var) == IF var = "asset" THEN OffsetFiltered ELSE OffsetPlain

\* the value returned once the loop has run: s holds the sums and the count
Averaged(var, s) ==
    IF s.count = 0 THEN DefaultColor(var)
    ELSE Rgb(Brighten(s.r, s.count, BrightenOffset(var)),
             Brighten(s.g, s.count, BrightenOffset(var)),
             Brighten(s.b, s.count, BrightenOffset(var)))

NoSum == [r |-> 0, g |-> 0, b |-> 0, count |-> 0]

CallOf(x, y, w, h, g) ==
    [called |-> TRUE, x |-> x, y |-> y, w |-> w, h |-> h,
     sx |-> g.sx, sy |-> g.sy, sw |-> g.sw, sh |-> g.sh]

Returned(var, call, read, s) ==
    call @@ [read |-> read, count |-> s.count, color |-> Averaged(var, s)]

\* from the early return on: call holds the arguments and the clamped region
SampleFrom(var, cv, call) ==
    IF call.sw <= 0 \/ call.sh <= 0
    THEN Returned(var, call, FALSE, NoSum)
    ELSE Returned(var, call, TRUE, SumFrom(var, cv, call, 0, NoSum))

ComputeAverageColor(var, cv, x, y, w, h) ==
    SampleFrom(var, cv, CallOf(x, y, w, h, SampleRegion(var, cv, x, y, w, h)))

NoCall == [called |-> FALSE]

(***************************************************************************)
(* Slider values (tenths) as a handler finds them.  The sliders have no    *)
(* handlers of their own: a handler reads whatever they hold when it runs. *)
(***************************************************************************)
Settings == {[i |-> 5, wf |-> 10, vo |-> 0],
             [i |-> 10, wf |-> 15, vo |-> -1]}
IntensityValues == {s.i : s \in Settings}

\* only script.js has the width and offset sliders
WidthOf(var, s) == IF var = "asset" THEN s.wf ELSE 10
OffsetOf(var, s) == IF var = "asset" THEN s.vo ELSE 0

(***************************************************************************)
(* What the detector can deliver: no face, or one list of normalised       *)
(* points (tenths).                                                        *)
(***************************************************************************)
LeftEye == 33
RightEye == 263
NoFace == <<>>
ShortFace == << <<2, 3>>, <<8, 4>>, <<5, 9>> >>
FullFace == [k \in 1..(RightEye + 2) |->
                IF k - 1 = LeftEye THEN <<3, 4>>
                ELSE IF k - 1 = RightEye THEN <<7, 5>>
                ELSE IF k % 3 = 0 THEN <<3, 2>>
                ELSE IF k % 3 = 1 THEN <<7, 6>> ELSE <<5, 7>>]
LandmarkSets == {ShortFace, FullFace}

(***************************************************************************)
(* Images                                                                  *)
(***************************************************************************)
NoImage == [file |-> "none", state |-> "none"]
Width(img) == IF img.state = "loaded" THEN ImgWidth(img.file) ELSE 0
Height(img) == IF img.state = "loaded" THEN ImgHeight(img.file) ELSE 0

Complete(a) == a \in {"loaded", "broken"}
NaturalWidth(a) == IF a = "loaded" THEN 1 ELSE 0

RECURSIVE BagSize(_, _)
BagSize(f, S) == IF S = {} THEN 0
                 ELSE LET e == CHOOSE e \in S : TRUE IN f[e] + BagSize(f, S \ {e})

InFlight == BagSize(runs, DOMAIN runs)
Loading == IF uploadedImage.state = "loading" THEN 1 ELSE 0
Pending == pendingReads + orphans + Loading

\* ctx.clearRect(0, 0, canvas.width, canvas.height); ctx.drawImage(img, 0, 0)
\* a broken image makes drawImage throw, one still decoding draws nothing
Redraw(cv, img) ==
    IF img.state = "loaded"
    THEN [threw |-> FALSE, canvas |-> ImageCanvas(cv.w, cv.h, img.file)]
    ELSE [threw |-> img.state = "broken", canvas |-> BlankCanvas(cv.w, cv.h)]

(***************************************************************************)
(* Placement                                                               *)
(***************************************************************************)
Rect(x, y, w, h) == [x |-> x, y |-> y, w |-> w, h |-> h]
NoRect == Rect(0, 0, 0, 0)

FallbackRect(var, cv, s) ==
    LET w == (Px(cv.w) \div 1000) * (30 + 2 * s.i) * WidthOf(var, s)
        h == (Px(cv.h) \div 100) * (15 + s.i)
    IN  Rect(Px(cv.w) \div 2 - w \div 2,
             (Px(cv.h) \div 100) * 65 + OffsetOf(var, s) * (Px(cv.h) \div 10),
             w, h)

\* a normalised coordinate (tenths) times the image's width or height
Scaled(t, size) == t * size * (Unit \div 10)

BoxOf(xs, ys) ==
    [minX |-> SetMin(xs), maxX |-> SetMax(xs), minY |-> SetMin(ys), maxY |-> SetMax(ys)]

\* xs, ys: the landmarks in pixel space
BoundingBox(lm, img) ==
    CHOOSE box \in {BoxOf({Scaled(p[1], iw) : p \in pts}, {Scaled(p[2], ih) : p \in pts}) :
                        pts \in {{lm[k] : k \in DOMAIN lm}},
                        iw \in {Width(img)}, ih \in {Height(img)}} :
        TRUE

DetectedRectNoFactor(var, box, i, s) ==
    LET faceW == box.maxX - box.minX
        faceH == box.maxY - box.minY
        overlayW == (faceW \div 1000) * (45 + 3 * i) * 10
        overlayH == (faceH \div 1000) * (250 + 15 * i)
    IN  Rect((box.minX + box.maxX) \div 2 - overlayW \div 2,
             box.maxY - (overlayH \div 10) * 4,
             overlayW, overlayH)

DetectedRect(var, box, i, s) ==
    LET faceW == box.maxX - box.minX
        faceH == box.maxY - box.minY
        overlayW == (faceW \div 1000) * (45 + 3 * i) * WidthOf(var, s)
        overlayH == (faceH \div 1000) * (250 + 15 * i)
    IN  Rect((box.minX + box.maxX) \div 2 - overlayW \div 2,
             box.maxY - (overlayH \div 10) * 4 + OffsetOf(var, s) * (faceH \div 10),
             overlayW, overlayH)

\* the arguments of Math.atan2(dy, dx); <<0, 0>> where the angle stays 0
EyeLine(lm, img) ==
    IF Len(lm) > RightEye
    THEN << Scaled(lm[RightEye + 1][2] - lm[LeftEye + 1][2], Height(img)),
            Scaled(lm[RightEye + 1][1] - lm[LeftEye + 1][1], Width(img)) >>
    ELSE <<0, 0>>

(***************************************************************************)
(* Compositors.  Each gives [threw, drew, canvas].                         *)
(***************************************************************************)
NoOverlay == [rect |-> NoRect, fill |-> Transparent, rot |-> <<0, 0>>]

Paint(cv, r, fill, rot) ==
    [threw |-> FALSE, drew |-> TRUE, overlay |-> [rect |-> r, fill |-> fill, rot |-> rot],
     canvas |-> [cv EXCEPT !.painted = @ + 1]]
Skip(cv) == [threw |-> FALSE, drew |-> FALSE, overlay |-> NoOverlay, canvas |-> cv]
Throw(cv) == [threw |-> TRUE, drew |-> FALSE, overlay |-> NoOverlay, canvas |-> cv]

AssetsNotReady ==
    \/ ~Complete(maskImg)
    \/ ~Complete(outlineImg)
    \/ NaturalWidth(maskImg) = 0

\* the offscreen canvas: mask, source-in fill, then the outline on top;
\* drawImage throws on an image in the broken state
Offscreen(cv, r, fill, rot) ==
    IF outlineImg = "broken" THEN Throw(cv) ELSE Paint(cv, r, fill, rot)

DrawTintedChin(cv, r, fill) ==
    IF AssetsNotReady THEN Skip(cv) ELSE Offscreen(cv, r, fill, <<0, 0>>)

\* translate to the centre, rotate, draw at (-w/2, -h/2)
DrawRotated(cv, r, fill, rot) ==
    IF AssetsNotReady THEN Skip(cv)
    ELSE LET cx == r.x + r.w \div 2
             cy == r.y + r.h \div 2
         IN  Offscreen(cv, Rect(cx - r.w \div 2, cy - r.h \div 2, r.w, r.h), fill, rot)

\* ctx.ellipse throws on a negative radius
DrawBallsChin(cv, r, fill) ==
    IF r.w < 0 \/ r.h < 0 THEN Throw(cv) ELSE Paint(cv, r, fill, <<0, 0>>)

(***************************************************************************)
(* The two placement paths.  Each gives what it did:                       *)
(* [used, box, i, s, rect, threw, drew, overlay].                          *)
(***************************************************************************)
NoBox == [minX |-> 0, maxX |-> 0, minY |-> 0, maxY |-> 0]
NoPath == [used |-> FALSE]

Did(box, i, s, rect, d) ==
    [used |-> TRUE, box |-> box, i |-> i, s |-> s, rect |-> rect,
     threw |-> d.threw, drew |-> d.drew, overlay |-> d.overlay]

\* the colours a sample of painted pixels may come to
Tints == {Rgb(235, 175, 155), Rgb(40, 40, 40)}

Seen(cv, c, seen) == IF cv.painted > 0 /\ c.read THEN [c EXCEPT !.color = seen] ELSE c

\* computeAverageColor on the canvas as it is; seen: what painted pixels come to
Sample(var, cv, r, seen) == Seen(cv, ComputeAverageColor(var, cv, r.x, r.y, r.w, r.h), seen)

Compose(var, cv, r, fill, rot, rotated) ==
    IF var = "procedural" THEN DrawBallsChin(cv, r, fill)
    ELSE IF rotated THEN DrawRotated(cv, r, fill, rot)
    ELSE DrawTintedChin(cv, r, fill)

Outcome(box, i, s, r, call, d) ==
    [obs |-> Did(box, i, s, r, d), call |-> call, canvas |-> d.canvas]

Tinted(var, cv, box, i, s, r, rot, rotated, call) ==
    Outcome(box, i, s, r, call, Compose(var, cv, r, call.color, rot, rotated))

\* sample under the rectangle, then draw there in the sampled colour
Place(var, cv, box, i, s, r, rot, rotated, seen) ==
    Tinted(var, cv, box, i, s, r, rot, rotated, Sample(var, cv, r, seen))

DrawFallback(var, cv, s, seen) ==
    Place(var, cv, NoBox, s.i, s, FallbackRect(var, cv, s), <<0, 0>>, FALSE, seen)

PlaceUnder(var, cv, box, i, s, rot, seen) ==
    Place(var, cv, box, i, s, DetectedRect(var, box, i, s), rot, TRUE, seen)

DrawDetected(var, cv, img, lm, i, s, seen) ==
    PlaceUnder(var, cv, BoundingBox(lm, img), i, s, EyeLine(lm, img), seen)

(***************************************************************************)
(* What a step leaves for the properties to look at.                       *)
(***************************************************************************)
NoRun == [ended |-> "none"]
NoExport == [made |-> FALSE]

Quiet == sampled' = NoCall /\ last' = NoRun /\ exported' = NoExport

(***************************************************************************)
(* Construction: nothing loaded, both buttons disabled (the state the      *)
(* change handler restores when no file is selected), the two asset images *)
(* requested.                                                              *)
(***************************************************************************)
Init ==
    /\ variant \in Variants
    /\ detectorLoaded \in BOOLEAN
    /\ genDisabled = TRUE
    /\ dlDisabled = TRUE
    /\ maskImg = (IF variant = "asset" THEN "loading" ELSE "absent")
    /\ outlineImg = (IF variant = "asset" THEN "loading" ELSE "absent")
    /\ pendingReads = 0
    /\ uploadedImage = NoImage
    /\ orphans = 0
    /\ canvas = BlankCanvas(300, 150)
    /\ runs = [i \in IntensityValues |-> 0]
    /\ sampled = NoCall
    /\ last = NoRun
    /\ exported = NoExport

(***************************************************************************)
(* Asset images settle: load or error.                                     *)
(***************************************************************************)
MaskSettles(ok) ==
    /\ maskImg = "loading"
    /\ maskImg' = (IF ok THEN "loaded" ELSE "broken")
    /\ Quiet
    /\ UNCHANGED <<variant, detectorLoaded, genDisabled, dlDisabled, outlineImg,
                   pendingReads, uploadedImage, orphans, canvas, runs>>

OutlineSettles(ok) ==
    /\ outlineImg = "loading"
    /\ outlineImg' = (IF ok THEN "loaded" ELSE "broken")
    /\ Quiet
    /\ UNCHANGED <<variant, detectorLoaded, genDisabled, dlDisabled, maskImg,
                   pendingReads, uploadedImage, orphans, canvas, runs>>

(***************************************************************************)
(* fileInput change, reader.onload, uploadedImage.onload                   *)
(***************************************************************************)
\* which file a read carries shows only when the read completes
FileChange(some) ==
    /\ IF ~some
       THEN /\ genDisabled' = TRUE
            /\ dlDisabled' = TRUE
            /\ UNCHANGED pendingReads
       ELSE /\ Pending < MaxPending
            /\ pendingReads' = pendingReads + 1
            /\ UNCHANGED <<genDisabled, dlDisabled>>
    /\ Quiet
    /\ UNCHANGED <<variant, detectorLoaded, maskImg, outlineImg, uploadedImage,
                   orphans, canvas, runs>>

\* uploadedImage = new Image(); the Image it replaces keeps its onload handler,
\* which fires later if that Image decodes (willLoad)
ReaderOnload(willLoad) ==
    /\ pendingReads > 0
    /\ pendingReads' = pendingReads - 1
    /\ orphans' = (IF uploadedImage.state = "loading" /\ willLoad
                   THEN orphans + 1 ELSE orphans)
    /\ uploadedImage' = [file |-> "undecoded", state |-> "loading"]
    /\ Quiet
    /\ UNCHANGED <<variant, detectorLoaded, genDisabled, dlDisabled, maskImg,
                   outlineImg, canvas, runs>>

\* the handler reads the global uploadedImage, whichever Image fired it
OnloadHandler(img) ==
    LET d == Redraw(BlankCanvas(Width(img), Height(img)), img)
    IN  /\ canvas' = d.canvas
        /\ genDisabled' = (IF d.threw THEN genDisabled ELSE FALSE)
        /\ dlDisabled' = (IF d.threw THEN dlDisabled ELSE TRUE)

ImageLoad(f) ==
    /\ uploadedImage.state = "loading"
    /\ uploadedImage' = [file |-> f, state |-> "loaded"]
    /\ OnloadHandler(uploadedImage')
    /\ Quiet
    /\ UNCHANGED <<variant, detectorLoaded, maskImg, outlineImg, pendingReads,
                   orphans, runs>>

\* no onerror handler is set
ImageError(f) ==
    /\ uploadedImage.state = "loading"
    /\ uploadedImage' = [file |-> f, state |-> "broken"]
    /\ Quiet
    /\ UNCHANGED <<variant, detectorLoaded, genDisabled, dlDisabled, maskImg,
                   outlineImg, pendingReads, orphans, canvas, runs>>

OrphanLoad ==
    /\ orphans > 0
    /\ orphans' = orphans - 1
    /\ OnloadHandler(uploadedImage)
    /\ Quiet
    /\ UNCHANGED <<variant, detectorLoaded, maskImg, outlineImg, pendingReads,
                   uploadedImage, runs>>

(***************************************************************************)
(* generateBtn click                                                       *)
(***************************************************************************)
Caught(cause, tried, b) ==
    [canvas |-> b.canvas, call |-> b.call,
     last |-> [ended |-> IF b.obs.threw THEN "crashed" ELSE "done",
               cause |-> cause, det |-> tried.det, fb |-> b.obs]]

\* the catch block and the two lines after it, given what the try block did
Finish(var, s, seen, cause, tried) ==
    IF tried.threw
    THEN Caught(cause, tried, DrawFallback(var, tried.canvas, s, seen))
    ELSE [canvas |-> tried.canvas, call |-> tried.call,
          last |-> [ended |-> "done", cause |-> cause, det |-> tried.det, fb |-> tried.fb]]

Tried(a, detected) ==
    [threw |-> a.obs.threw, canvas |-> a.canvas, call |-> a.call,
     det |-> IF detected THEN a.obs ELSE NoPath,
     fb |-> IF detected THEN NoPath ELSE a.obs]

\* the try block after the await
TryBlock(var, cv, img, lm, i, s, seen) ==
    IF lm = NoFace
    THEN Tried(DrawFallback(var, cv, s, seen), FALSE)
    ELSE Tried(DrawDetected(var, cv, img, lm, i, s, seen), TRUE)

\* onResults or send throwing inside the promise executor rejects the promise
Rejected(cv) ==
    [threw |-> TRUE, canvas |-> cv, call |-> NoCall, det |-> NoPath, fb |-> NoPath]

Crashed(cause) == [ended |-> "crashed", cause |-> cause, det |-> NoPath, fb |-> NoPath]

Ends(end) ==
    /\ canvas' = end.canvas
    /\ sampled' = end.call
    /\ last' = end.last
    /\ genDisabled' = (end.last.ended = "crashed")
    /\ dlDisabled' = (end.last.ended = "crashed")

\* s: the sliders as the click finds them; det: what the detector does when started
GenerateClick(s, det) ==
    /\ ~genDisabled
    /\ det = "pending" => InFlight < MaxRuns
    /\ exported' = NoExport
    /\ UNCHANGED <<variant, detectorLoaded, maskImg, outlineImg, pendingReads,
                   uploadedImage, orphans>>
    /\ IF uploadedImage = NoImage
       THEN /\ sampled' = NoCall /\ last' = NoRun
            /\ UNCHANGED <<genDisabled, dlDisabled, canvas, runs>>
       ELSE LET d == Redraw(canvas, uploadedImage)
            IN  IF d.threw \/ ~detectorLoaded
                THEN /\ genDisabled' = TRUE
                     /\ dlDisabled' = TRUE
                     /\ canvas' = d.canvas
                     /\ sampled' = NoCall
                     /\ last' = Crashed(IF d.threw THEN "image" ELSE "unavailable")
                     /\ UNCHANGED runs
                ELSE IF det = "throws"
                THEN /\ \E end \in {Finish(variant, s, DefaultColor(variant), "threw",
                                             Rejected(d.canvas))} : Ends(end)
                     /\ UNCHANGED runs
                ELSE /\ genDisabled' = TRUE
                     /\ dlDisabled' = TRUE
                     /\ canvas' = d.canvas
                     /\ runs' = [runs EXCEPT ![s.i] = @ + 1]
                     /\ sampled' = NoCall
                     /\ last' = NoRun

\* the detector calls back with its results and the handler runs to its end
DetectorResults(i, lm, s, seen) ==
    /\ runs[i] > 0
    /\ canvas.painted = 0 => seen = DefaultColor(variant)
    /\ runs' = [runs EXCEPT ![i] = @ - 1]
    /\ \E end \in {Finish(variant, s, seen, IF lm = NoFace THEN "noface" ELSE "landmarks",
                             TryBlock(variant, canvas, uploadedImage, lm, i, s, seen))} :
           Ends(end)
    /\ exported' = NoExport
    /\ UNCHANGED <<variant, detectorLoaded, maskImg, outlineImg, pendingReads,
                   uploadedImage, orphans>>

(***************************************************************************)
(* downloadBtn click                                                       *)
(***************************************************************************)
DownloadClick ==
    /\ ~dlDisabled
    /\ exported' = (IF uploadedImage = NoImage THEN NoExport
                    ELSE [made |-> TRUE, canvas |-> canvas])
    /\ sampled' = NoCall
    /\ last' = NoRun
    /\ UNCHANGED <<variant, detectorLoaded, genDisabled, dlDisabled, maskImg, outlineImg,
                   pendingReads, uploadedImage, orphans, canvas, runs>>

Next ==
    \/ \E ok \in BOOLEAN : MaskSettles(ok)
    \/ \E ok \in BOOLEAN : OutlineSettles(ok)
    \/ \E some \in BOOLEAN : FileChange(some)
    \/ \E willLoad \in BOOLEAN : ReaderOnload(willLoad)
    \/ \E f \in GoodFiles : ImageLoad(f)
    \/ \E f \in BadFiles : ImageError(f)
    \/ OrphanLoad
    \/ \E s \in Settings, det \in {"pending", "throws"} : GenerateClick(s, det)
    \/ \E i \in IntensityValues, lm \in LandmarkSets \cup {NoFace}, s \in Settings,
          seen \in Tints \cup {DefaultColor(variant)} :
           DetectorResults(i, lm, s, seen)
    \/ DownloadClick

Spec == Init /\ [][Next]_vars

(***************************************************************************)
(* The sampler on its own: any rectangle against a canvas.                 *)
(***************************************************************************)
Step == (Unit \div 2) * 5          \* sampler inputs are multiples of 2.5 pixels
Coords == {k * Step : k \in (-2)..MaxCoord}

SamplerInit ==
    /\ variant \in Variants
    /\ detectorLoaded = TRUE
    /\ genDisabled = FALSE
    /\ dlDisabled = TRUE
    /\ maskImg = (IF variant = "asset" THEN "loaded" ELSE "absent")
    /\ outlineImg = (IF variant = "asset" THEN "loaded" ELSE "absent")
    /\ pendingReads = 0
    /\ \/ /\ uploadedImage = [file |-> "quad", state |-> "loaded"]
          /\ canvas = ImageCanvas(ImgWidth("quad"), ImgHeight("quad"), "quad")
       \/ /\ uploadedImage = [file |-> "undecoded", state |-> "loading"]
          /\ canvas = BlankCanvas(0, 0)
    /\ orphans = 0
    /\ runs = [i \in IntensityValues |-> 0]
    /\ sampled = NoCall
    /\ last = NoRun
    /\ exported = NoExport

SampleCall(x, y, w, h) ==
    /\ sampled' = ComputeAverageColor(variant, canvas, x, y, w, h)
    /\ UNCHANGED <<variant, detectorLoaded, genDisabled, dlDisabled, maskImg, outlineImg,
                   pendingReads, uploadedImage, orphans, canvas, runs, last, exported>>

SamplerNext ==
    /\ ~sampled.called
    /\ \E x \in Coords, y \in Coords, w \in Coords, h \in Coords : SampleCall(x, y, w, h)

SamplerSpec == SamplerInit /\ [][SamplerNext]_vars

(***************************************************************************)
(* Properties                                                              *)
(***************************************************************************)
RunEnded == last.ended # "none"
CompositorThrew == (last.fb.used /\ last.fb.threw) \/ (last.det.used /\ last.det.threw)
Drew == (last.fb.used /\ last.fb.drew) \/ (last.det.used /\ last.det.drew)

\* C1: at most one generate run is in flight, and the generate control stays
\* disabled from the start of a run until that run ends.
C1_OneRunAtATime ==
    /\ InFlight <= 1
    /\ InFlight > 0 => genDisabled

\* C2: a generate run whose detector delivered a result or failed ends by
\* re-enabling the generate and the download control, on the detected path, the
\* no-face path and the caught-exception path alike.
C2_RespondedRunReenables ==
    (RunEnded /\ last.cause \in {"landmarks", "noface", "threw"})
        => (last.ended = "done" /\ ~genDisabled /\ ~dlDisabled)

\* C3: with no landmarks, a detector exception or no detector available the run
\* takes the fallback path; the rectangle it samples and draws is
\* w = canvasWidth*(0.3+0.2*intensity)[*widthFactor], h = canvasHeight*(0.15+0.1*intensity),
\* x = canvasWidth/2 - w/2, y = 0.65*canvasHeight [+ verticalOffset*canvasHeight],
\* and the compositor draws without throwing.
C3_FallbackOnFailure ==
    (RunEnded /\ last.cause \in {"noface", "threw", "unavailable"})
        => LET r == last.fb.rect
               wf == IF variant = "asset" THEN last.fb.s.wf ELSE 10
               vo == IF variant = "asset" THEN last.fb.s.vo ELSE 0
           IN  /\ last.ended = "done"
               /\ last.fb.used /\ ~last.det.used
               /\ ~CompositorThrew
               /\ r.w = 200 * canvas.w * (30 + 2 * last.fb.s.i) * wf
               /\ r.h = 2000 * canvas.h * (15 + last.fb.s.i)
               /\ 2 * r.x = Px(canvas.w) - r.w
               /\ 100 * r.y = (65 + 10 * vo) * Px(canvas.h)
               /\ sampled.called /\ Rect(sampled.x, sampled.y, sampled.w, sampled.h) = r
               /\ last.fb.drew => last.fb.overlay.rect = r

\* C4: for a rectangle that lies fully outside the bitmap (entirely left of,
\* above, right of or below the canvas) computeAverageColor returns the default
\* RGB of its variant and reads no pixel.
C4_OutsideGivesDefault ==
    (/\ sampled.called
     /\ sampled.w > 0 /\ sampled.h > 0
     /\ \/ sampled.x + sampled.w <= 0
        \/ sampled.y + sampled.h <= 0
        \/ sampled.x >= Px(canvas.w)
        \/ sampled.y >= Px(canvas.h))
        => /\ ~sampled.read
           /\ sampled.color = (IF variant = "asset" THEN Rgb(220, 160, 140)
                                                    ELSE Rgb(200, 160, 140))

\* C5: every call of computeAverageColor that reaches the pixel read passes a
\* region with sx >= 0, sy >= 0, sw > 0, sh > 0, sx+sw <= canvas.width and
\* sy+sh <= canvas.height, whatever x, y, w, h were.
C5_ReadInBounds ==
    (sampled.called /\ sampled.read) =>
        /\ sampled.sx >= 0 /\ sampled.sy >= 0
        /\ sampled.sw > 0 /\ sampled.sh > 0
        /\ sampled.sx + sampled.sw <= canvas.w
        /\ sampled.sy + sampled.sh <= canvas.h

\* C5 witness: a read for a rectangle that starts left of and above the canvas
\* and is wider and higher than it.
C5_Witness ==
    /\ sampled.called /\ sampled.read
    /\ sampled.x < 0 /\ sampled.y < 0
    /\ sampled.w > Px(canvas.w) /\ sampled.h > Px(canvas.h)

UniformRegion ==
    \A px \in sampled.sx..(sampled.sx + sampled.sw - 1),
       py \in sampled.sy..(sampled.sy + sampled.sh - 1) :
        CanvasPixel(canvas, px, py) = CanvasPixel(canvas, sampled.sx, sampled.sy)

\* C7: for a sampled region in which every pixel has the same colour C,
\* computeAverageColor returns min(255, c+10) per channel in the unfiltered
\* variant, and min(255, c+15) per channel in the filtered variant when the
\* brightness (r+g+b)/3 is strictly between 40 and 230, for every region size.
C7_UniformRegionBrightened ==
    (sampled.called /\ sampled.read /\ UniformRegion) =>
        LET c == CanvasPixel(canvas, sampled.sx, sampled.sy)
            up(v, by) == IF v + by > 255 THEN 255 ELSE v + by
        IN  /\ variant = "procedural" =>
                sampled.color = Rgb(up(c.r, 10), up(c.g, 10), up(c.b, 10))
            /\ (variant = "asset" /\ c.r + c.g + c.b > 120 /\ c.r + c.g + c.b < 690) =>
                sampled.color = Rgb(up(c.r, 15), up(c.g, 15), up(c.b, 15))

\* C7 witness: the filtered variant samples a uniform region of more than ten
\* pixels whose red channel reaches the clamp while the others do not.
C7_Witness ==
    /\ variant = "asset"
    /\ sampled.called /\ sampled.read /\ UniformRegion
    /\ sampled.sw * sampled.sh > 10
    /\ sampled.count > 1
    /\ sampled.color = Rgb(255, 115, 45)

\* C6: drawTintedChin is a silent no-op whenever the mask or the outline is not
\* fully loaded (still loading, or failed): it leaves the canvas unchanged,
\* does not throw, and the generate run that called it completes.
C6_NotLoadedIsNoOp ==
    (/\ variant = "asset"
     /\ RunEnded
     /\ last.fb.used \/ last.det.used
     /\ maskImg # "loaded" \/ outlineImg # "loaded")
        => (last.ended = "done" /\ ~CompositorThrew /\ ~Drew)

\* C8: on the detected path the overlay rectangle is, for the bounding box
\* (minX, maxX, minY, maxY), the intensity [, widthFactor, verticalOffset]:
\* width = (maxX-minX)*(0.45+0.3*intensity)[*widthFactor],
\* height = (maxY-minY)*(0.25+0.15*intensity), x = (minX+maxX)/2 - width/2,
\* y = maxY - 0.4*height [+ verticalOffset*(maxY-minY)];
\* the same rectangle is sampled and drawn.
C8_DetectedRect ==
    (RunEnded /\ last.det.used) =>
        LET b == last.det.box
            r == last.det.rect
            i == last.det.i
            wf == IF variant = "asset" THEN last.det.s.wf ELSE 10
            vo == IF variant = "asset" THEN last.det.s.vo ELSE 0
            tenthsW == (b.maxX - b.minX) \div (Unit \div 10)
            tenthsH == (b.maxY - b.minY) \div (Unit \div 10)
        IN  /\ r.w = 20 * tenthsW * (45 + 3 * i) * wf
            /\ r.h = 20 * tenthsH * (250 + 15 * i)
            /\ 2 * r.x = b.minX + b.maxX - r.w
            /\ 10 * r.y = 10 * b.maxY - 4 * r.h + vo * (b.maxY - b.minY)
            /\ last.det.drew => last.det.overlay.rect = r
            /\ ~last.fb.used =>
                   /\ sampled.called
                   /\ Rect(sampled.x, sampled.y, sampled.w, sampled.h) = r

\* C8 witness: a detected-path run that drew, with a proper bounding box, a
\* width factor other than 1, a vertical offset other than 0 and an intensity
\* captured at the click that differs from the slider at the callback.
C8_Witness ==
    /\ variant = "asset"
    /\ RunEnded /\ last.ended = "done"
    /\ last.det.used /\ last.det.drew
    /\ last.det.box.maxX > last.det.box.minX
    /\ last.det.box.maxY > last.det.box.minY
    /\ last.det.s.wf # 10 /\ last.det.s.vo # 0
    /\ last.det.i # last.det.s.i
    /\ last.det.overlay.rot # <<0, 0>>

\* C9: while a generate run is in flight uploadedImage is a fully decoded image
\* with the canvas's dimensions, and no other handler replaces uploadedImage or
\* changes the canvas.
C9_OneImagePerRun ==
    [][InFlight > 0 =>
          /\ uploadedImage.state = "loaded"
          /\ canvas.w = Width(uploadedImage) /\ canvas.h = Height(uploadedImage)
          /\ runs' = runs => (uploadedImage' = uploadedImage /\ canvas' = canvas)]_vars

\* C10: the download control is enabled only when the canvas holds the
\* finished output of a generate run on the currently loaded image: never while
\* a generate run is in flight, and never over another image than the loaded one.
C10_DownloadOnlyFinished ==
    ~dlDisabled =>
        /\ InFlight = 0
        /\ uploadedImage.state = "loaded" => canvas.base = uploadedImage.file
=============================================================================
